---- MODULE Spec2Model ----
(***************************************************************************)
(* Bracket-balance checkers of the repository.                             *)
(*                                                                         *)
(*   src/check_brackets.py                                                 *)
(*       count_brackets, find_bracket_position_issues and the module-level *)
(*       loop that runs both on every target file;                         *)
(*   src/archived/unused-scripts/bracket-checkers/detailed_bracket_check.py*)
(*       analyze_bracket_structure (one combined stack).                   *)
(*                                                                         *)
(* Spec    : one script processes one file; the two stack scans advance    *)
(*           one character per step.                                       *)
(* SpecRun : the module-level loop of check_brackets.py over a list of     *)
(*           files, one file per step, up to the end of the process.       *)
(***************************************************************************)
EXTENDS Integers, Sequences, FiniteSets, TLC

VARIABLES
    script,           \* which script is processing the file
    file,             \* the file: [content, readable]
    pc,               \* position of the script within the file's processing
    lines,            \* f.readlines()
    line_num,         \* enumerate(lines, 1): the current line
    char_pos,         \* enumerate(line): the current character
    pos,              \* locals of find_bracket_position_issues
    ana,              \* locals of analyze_bracket_structure
    basic_issues,     \* check_brackets.py:101
    position_issues,  \* check_brackets.py:102
    result,           \* detailed_bracket_check.py:138
    target_files,     \* check_brackets.py:86, the files still to process
    problems_found,   \* check_brackets.py:97
    detailed_issues,  \* check_brackets.py:98
    reports,          \* history: what each processed file produced
    run_pc,           \* position of the module-level code of check_brackets.py
    exit_status       \* the process's exit status, once run_pc = "exited"

scanVars == <<script, file, pc, lines, line_num, char_pos, pos, ana,
              basic_issues, position_issues, result>>
runVars == <<target_files, problems_found, detailed_issues, reports, run_pc,
             exit_status>>
vars == <<scanVars, runVars>>

\* ---------------------------------------------------------------- bounds

\* Longest file content of Spec, in characters.
MaxLen == 4
\* Longest file content of SpecRun, in characters.
MaxRunLen == 1
\* Most files of one run of SpecRun.
MaxFiles == 2

\* ------------------------------------------------------------ characters

Openers == {"(", "[", "{"}
Closers == {")", "]", "}"}
\* The backtick character (the lexer of TLA+ takes no backtick in a string).
Backtick == "backtick"

\* The characters a file is made of: the six brackets, the backtick, the
\* line break and one character that is none of these.
Chars == Openers \cup Closers \cup {Backtick, "\n", "a"}

Texts(n) == UNION {[1..k -> Chars] : k \in 0..n}

Files(n) == [content : Texts(n), readable : BOOLEAN]

\* str(e) of a failed open, read or decoding of the file
ReadError == "cannot read the file"

\* str.count of a single character
Count(content, ch) == Cardinality({i \in DOMAIN content : content[i] = ch})

\* Index of the first line break of s, or Len(s) when it has none.
RECURSIVE LineEnd(_, _)
LineEnd(s, i) ==
    IF i >= Len(s) \/ s[i] = "\n" THEN i ELSE LineEnd(s, i + 1)

\* f.readlines(): the lines of the content, each keeping its line break.
RECURSIVE Readlines(_)
Readlines(s) ==
    IF s = <<>> THEN <<>>
    ELSE LET k == LineEnd(s, 1)
         IN <<SubSeq(s, 1, k)>> \o Readlines(SubSeq(s, k + 1, Len(s)))

\* A list.append that puts the item first.
PushFront(stack, item) == <<item>> \o stack

\* list.append and list.pop
Push(stack, item) == Append(stack, item)

Pop(stack) == SubSeq(stack, 1, Len(stack) - 1)

\* ------------------------------------------- check_brackets.count_brackets

\* One entry of the list count_brackets returns.
CountIssue(name, open, close) ==
    [issue |-> name, open |-> open, close |-> close]

\* issues.append(...) when the condition holds
AppendIf(cond, issues, issue) == IF cond THEN Append(issues, issue) ELSE issues

\* The three family comparisons of count_brackets, in the source's order.
FamilyCountIssues(content) ==
    LET round_open == Count(content, "(")
        round_close == Count(content, ")")
        square_open == Count(content, "[")
        square_close == Count(content, "]")
        curly_open == Count(content, "{")
        curly_close == Count(content, "}")
        i1 == AppendIf(round_open # round_close, <<>>,
                       CountIssue("ROUND BRACKETS", round_open, round_close))
        i2 == AppendIf(square_open # square_close, i1,
                       CountIssue("SQUARE BRACKETS", square_open, square_close))
    IN AppendIf(curly_open # curly_close, i2,
                CountIssue("CURLY BRACKETS", curly_open, curly_close))

\* The backtick comparison of count_brackets.
BacktickCountIssues(content) ==
    LET backticks == Count(content, Backtick)
    IN AppendIf(backticks % 2 # 0, <<>>,
                [issue |-> "BACKTICKS", total |-> backticks])

count_brackets(f) ==
    IF ~f.readable
    THEN <<[issue |-> "ERROR reading file", detail |-> ReadError]>>
    ELSE FamilyCountIssues(f.content) \o BacktickCountIssues(f.content)

\* ----------------------------- check_brackets.find_bracket_position_issues

PosInit ==
    [bracket_issues |-> <<>>, round_stack |-> <<>>, square_stack |-> <<>>,
     curly_stack |-> <<>>]

\* The diagnostic of a closing bracket with a column counted from 1.
UnmatchedClosingOneBased(ln, cp, ch) ==
    [line |-> ln, pos |-> cp + 1, issue |-> "Unmatched closing", char |-> ch]

UnmatchedClosing(ln, cp, ch) ==
    [line |-> ln, pos |-> cp, issue |-> "Unmatched closing", char |-> ch]

UnclosedOpening(item, ch) ==
    [line |-> item[1], pos |-> item[2], issue |-> "Unclosed opening", char |-> ch]

\* A closing bracket met with its family's stack empty, and not reported.
ReportUnmatchedDropped(issues, ln, cp, ch) == issues

\* A closing bracket met with its family's stack empty.
ReportUnmatched(issues, ln, cp, ch) == Append(issues, UnmatchedClosing(ln, cp, ch))

\* The body of the inner loop with the branch of "]" working on round_stack.
PositionStepSharedStack(st, ln, cp, ch) ==
    IF ch = "(" THEN [st EXCEPT !.round_stack = Push(@, <<ln, cp>>)]
    ELSE IF ch = ")" THEN
        IF st.round_stack # <<>>
        THEN [st EXCEPT !.round_stack = Pop(@)]
        ELSE [st EXCEPT !.bracket_issues = ReportUnmatched(@, ln, cp, ch)]
    ELSE IF ch = "[" THEN [st EXCEPT !.square_stack = Push(@, <<ln, cp>>)]
    ELSE IF ch = "]" THEN
        IF st.round_stack # <<>>
        THEN [st EXCEPT !.round_stack = Pop(@)]
        ELSE [st EXCEPT !.bracket_issues = ReportUnmatched(@, ln, cp, ch)]
    ELSE IF ch = "{" THEN [st EXCEPT !.curly_stack = Push(@, <<ln, cp>>)]
    ELSE IF ch = "}" THEN
        IF st.curly_stack # <<>>
        THEN [st EXCEPT !.curly_stack = Pop(@)]
        ELSE [st EXCEPT !.bracket_issues = ReportUnmatched(@, ln, cp, ch)]
    ELSE st

\* The body of the inner loop: one character of one line.
PositionStep(st, ln, cp, ch) ==
    IF ch = "(" THEN [st EXCEPT !.round_stack = Push(@, <<ln, cp>>)]
    ELSE IF ch = ")" THEN
        IF st.round_stack # <<>>
        THEN [st EXCEPT !.round_stack = Pop(@)]
        ELSE [st EXCEPT !.bracket_issues = ReportUnmatched(@, ln, cp, ch)]
    ELSE IF ch = "[" THEN [st EXCEPT !.square_stack = Push(@, <<ln, cp>>)]
    ELSE IF ch = "]" THEN
        IF st.square_stack # <<>>
        THEN [st EXCEPT !.square_stack = Pop(@)]
        ELSE [st EXCEPT !.bracket_issues = ReportUnmatched(@, ln, cp, ch)]
    ELSE IF ch = "{" THEN [st EXCEPT !.curly_stack = Push(@, <<ln, cp>>)]
    ELSE IF ch = "}" THEN
        IF st.curly_stack # <<>>
        THEN [st EXCEPT !.curly_stack = Pop(@)]
        ELSE [st EXCEPT !.bracket_issues = ReportUnmatched(@, ln, cp, ch)]
    ELSE st

\* for line_num, char_pos in stack: bracket_issues.append(Unclosed opening ch)
UnclosedOf(stack, ch) == [i \in 1..Len(stack) |-> UnclosedOpening(stack[i], ch)]

\* The loops after the scan without the one over curly_stack.
PositionReturnNoCurly(st) ==
    st.bracket_issues \o UnclosedOf(st.round_stack, "(")
                      \o UnclosedOf(st.square_stack, "[")

\* The three loops after the scan, and the return value.
PositionReturn(st) ==
    st.bracket_issues \o UnclosedOf(st.round_stack, "(")
                      \o UnclosedOf(st.square_stack, "[")
                      \o UnclosedOf(st.curly_stack, "{")

\* The cursor of the two nested enumerate loops: the position after
\* (ln, cp), as <<line_num, char_pos>>; past the last line when ln > Len(ls).
NextCursor(ls, ln, cp) ==
    IF cp + 1 < Len(ls[ln]) THEN <<ln, cp + 1>> ELSE <<ln + 1, 0>>

\* The nested loops of find_bracket_position_issues from the cursor on.
RECURSIVE PositionScan(_, _, _, _)
PositionScan(st, ls, ln, cp) ==
    IF ln > Len(ls) THEN st
    ELSE LET c == NextCursor(ls, ln, cp)
         IN PositionScan(PositionStep(st, ln, cp, ls[ln][cp + 1]), ls, c[1], c[2])

find_bracket_position_issues(f) ==
    IF ~f.readable
    THEN <<[issue |-> "ERROR", detail |-> ReadError]>>
    ELSE PositionReturn(PositionScan(PosInit, Readlines(f.content), 1, 0))

\* ----------------------- detailed_bracket_check.analyze_bracket_structure

\* The whitespace str.strip removes, among Chars.
Whitespace == {"\n"}

RECURSIVE LStrip(_)
LStrip(s) ==
    IF s # <<>> /\ Head(s) \in Whitespace THEN LStrip(Tail(s)) ELSE s

RECURSIVE RStrip(_)
RStrip(s) ==
    IF s # <<>> /\ s[Len(s)] \in Whitespace
    THEN RStrip(SubSeq(s, 1, Len(s) - 1)) ELSE s

\* line.strip()
Strip(s) == RStrip(LStrip(s))

\* The longest context kept whole with an opening bracket.
ContextLimit == 50

\* line.strip()[:50] + '...' if len(line.strip()) > 50 else line.strip()
OpenContext(line) ==
    IF Len(Strip(line)) > ContextLimit
    THEN SubSeq(Strip(line), 1, ContextLimit) \o <<".", ".", ".">>
    ELSE Strip(line)

AnaInit == [bracket_stack |-> <<>>, issues |-> <<>>, line_issues |-> <<>>]

\* {')': 0, ']': 1, '}': 2}[char]
CloserIndex(char) == CASE char = ")" -> 0 [] char = "]" -> 1 [] char = "}" -> 2

\* '([{'[i]
OpenerAt(i) == <<"(", "[", "{">>[i + 1]

\* S[i] for a set S: Python's sets take no subscript, the expression raises
\* TypeError whatever S and i are.
SetSubscript(S, i) ==
    [raised |-> TRUE, exc |-> "'set' object is not subscriptable"]

\* The branch of a closing bracket once `expected` has a value.
AnalyzeClose(st, ln, cp, line, expected_open) ==
    LET char == line[cp + 1]
    IN IF st.bracket_stack = <<>>
       THEN [st EXCEPT !.line_issues =
                Append(@, [line |-> ln, pos |-> cp, issue |-> "Unmatched closing",
                           char |-> char, context |-> Strip(line)])]
       ELSE LET last_open == st.bracket_stack[Len(st.bracket_stack)]
            IN IF last_open.char = expected_open
               THEN [st EXCEPT !.bracket_stack = Pop(@)]
               ELSE [st EXCEPT
                        !.line_issues =
                            Append(@, [line |-> ln, pos |-> cp,
                                       issue |-> "Mismatched brackets",
                                       open |-> last_open.char,
                                       open_line |-> last_open.line,
                                       char |-> char, context |-> Strip(line)]),
                        !.bracket_stack = Pop(@)]

\* The body of the inner loop: one character of one line. The result says
\* whether the body raised, and holds the locals after it.
AnalyzeStep(st, ln, cp, line) ==
    LET char == line[cp + 1]
    IN IF char \in Openers
       THEN [raised |-> FALSE, exc |-> "",
             st |-> [st EXCEPT !.bracket_stack =
                        Push(@, [char |-> char, line |-> ln, pos |-> cp,
                                 context |-> OpenContext(line)])]]
       ELSE IF char \in Closers
       THEN LET expected == SetSubscript(Closers, CloserIndex(char))
                expected_open == OpenerAt(CloserIndex(char))
            IN IF expected.raised
               THEN [raised |-> TRUE, exc |-> expected.exc, st |-> st]
               ELSE [raised |-> FALSE, exc |-> "",
                     st |-> AnalyzeClose(st, ln, cp, line, expected_open)]
       ELSE [raised |-> FALSE, exc |-> "", st |-> st]

\* total_brackets of the except branch
None == [none |-> TRUE]

IsNone(x) == "none" \in DOMAIN x

\* The value the except branch returns for the exception e.
ErrorResult(e) ==
    [issues |-> <<[line |-> "N/A", pos |-> "N/A", issue |-> "ERROR",
                   detail |-> e, context |-> "File read error"]>>,
     total_brackets |-> None]

\* ''.join(lines)
RECURSIVE Join(_)
Join(ls) == IF ls = <<>> THEN <<>> ELSE Head(ls) \o Join(Tail(ls))

\* for unclosed in bracket_stack: line_issues.append(...)
UnclosedIssues(stack) ==
    [i \in 1..Len(stack) |->
        [line |-> stack[i].line, pos |-> stack[i].pos, issue |-> "Unclosed",
         char |-> stack[i].char, context |-> stack[i].context]]

\* The template-literal check.
BacktickIssues(content) ==
    LET backtick_count == Count(content, Backtick)
    IN AppendIf(backtick_count % 2 # 0, <<>>,
                [line |-> "multiple", pos |-> "various",
                 issue |-> "Unmatched template literals (backticks)",
                 total |-> backtick_count,
                 context |-> "Check template string literals"])

\* The code after the scan, and the return value.
AnalyzeReturn(st, ls) ==
    LET content == Join(ls)
    IN [issues |-> st.line_issues \o UnclosedIssues(st.bracket_stack)
                                  \o BacktickIssues(content),
        total_brackets |->
            [round |-> <<Count(content, "("), Count(content, ")")>>,
             square |-> <<Count(content, "["), Count(content, "]")>>,
             curly |-> <<Count(content, "{"), Count(content, "}")>>,
             backticks |-> Count(content, Backtick)]]

\* The nested loops of analyze_bracket_structure from the cursor on.
RECURSIVE AnalyzeScan(_, _, _, _)
AnalyzeScan(st, ls, ln, cp) ==
    IF ln > Len(ls) THEN [raised |-> FALSE, exc |-> "", st |-> st]
    ELSE LET c == NextCursor(ls, ln, cp)
             r == AnalyzeStep(st, ln, cp, ls[ln])
         IN IF r.raised THEN r ELSE AnalyzeScan(r.st, ls, c[1], c[2])

analyze_bracket_structure(f) ==
    IF ~f.readable
    THEN ErrorResult(ReadError)
    ELSE LET ls == Readlines(f.content)
             r == AnalyzeScan(AnaInit, ls, 1, 0)
         IN IF r.raised THEN ErrorResult(r.exc) ELSE AnalyzeReturn(r.st, ls)

\* --------------------------------------------------- one file, per step

Scripts == {"check_brackets", "detailed_bracket_check"}

\* The value of a name that is not bound yet.
Unset == <<>>

\* The step a script starts a file with.
StartPc(sc) == IF sc = "check_brackets" THEN "count_brackets" ELSE "analyze_open"

InitRunVars ==
    /\ target_files = <<>>
    /\ problems_found = FALSE
    /\ detailed_issues = <<>>
    /\ reports = <<>>
    /\ run_pc = "idle"
    /\ exit_status = 0

Init ==
    /\ script \in Scripts
    /\ file \in Files(MaxLen)
    /\ pc = StartPc(script)
    /\ lines = <<>>
    /\ line_num = 1
    /\ char_pos = 0
    /\ pos = PosInit
    /\ ana = AnaInit
    /\ basic_issues = Unset
    /\ position_issues = Unset
    /\ result = None
    /\ InitRunVars

\* The loops have a character left to read.
InLoop == line_num <= Len(lines)

\* The character the loops are at.
CurChar == lines[line_num][char_pos + 1]

\* check_brackets.py:101, the whole call.
CountBrackets ==
    /\ pc = "count_brackets"
    /\ basic_issues' = count_brackets(file)
    /\ pc' = "find_open"
    /\ UNCHANGED <<script, file, lines, line_num, char_pos, pos, ana,
                   position_issues, result, runVars>>

\* find_bracket_position_issues: open and readlines succeed.
FindOpen ==
    /\ pc = "find_open"
    /\ file.readable
    /\ lines' = Readlines(file.content)
    /\ line_num' = 1
    /\ char_pos' = 0
    /\ pos' = PosInit
    /\ pc' = "find_scan"
    /\ UNCHANGED <<script, file, ana, basic_issues, position_issues, result,
                   runVars>>

\* find_bracket_position_issues: open or readlines raises; the except branch
\* returns.
FindOpenFails ==
    /\ pc = "find_open"
    /\ ~file.readable
    /\ position_issues' = <<[issue |-> "ERROR", detail |-> ReadError]>>
    /\ pc' = "done"
    /\ UNCHANGED <<script, file, lines, line_num, char_pos, pos, ana,
                   basic_issues, result, runVars>>

\* find_bracket_position_issues: one turn of the inner loop.
FindChar ==
    /\ pc = "find_scan"
    /\ InLoop
    /\ pos' = PositionStep(pos, line_num, char_pos, CurChar)
    /\ line_num' = NextCursor(lines, line_num, char_pos)[1]
    /\ char_pos' = NextCursor(lines, line_num, char_pos)[2]
    /\ UNCHANGED <<script, file, pc, lines, ana, basic_issues,
                   position_issues, result, runVars>>

\* find_bracket_position_issues: the loops are over; the unclosed brackets
\* are reported and the list returned.
FindReturn ==
    /\ pc = "find_scan"
    /\ ~InLoop
    /\ position_issues' = PositionReturn(pos)
    /\ pc' = "done"
    /\ UNCHANGED <<script, file, lines, line_num, char_pos, pos, ana,
                   basic_issues, result, runVars>>

\* analyze_bracket_structure: open and readlines succeed.
AnalyzeOpen ==
    /\ pc = "analyze_open"
    /\ file.readable
    /\ lines' = Readlines(file.content)
    /\ line_num' = 1
    /\ char_pos' = 0
    /\ ana' = AnaInit
    /\ pc' = "analyze_scan"
    /\ UNCHANGED <<script, file, pos, basic_issues, position_issues, result,
                   runVars>>

\* analyze_bracket_structure: open or readlines raises; the except branch
\* returns.
AnalyzeOpenFails ==
    /\ pc = "analyze_open"
    /\ ~file.readable
    /\ result' = ErrorResult(ReadError)
    /\ pc' = "done"
    /\ UNCHANGED <<script, file, lines, line_num, char_pos, pos, ana,
                   basic_issues, position_issues, runVars>>

\* analyze_bracket_structure: one turn of the inner loop that does not raise.
AnalyzeChar ==
    /\ pc = "analyze_scan"
    /\ InLoop
    /\ ~AnalyzeStep(ana, line_num, char_pos, lines[line_num]).raised
    /\ ana' = AnalyzeStep(ana, line_num, char_pos, lines[line_num]).st
    /\ line_num' = NextCursor(lines, line_num, char_pos)[1]
    /\ char_pos' = NextCursor(lines, line_num, char_pos)[2]
    /\ UNCHANGED <<script, file, pc, lines, pos, basic_issues,
                   position_issues, result, runVars>>

\* analyze_bracket_structure: a turn of the inner loop raises; the except
\* branch returns.
AnalyzeRaises ==
    /\ pc = "analyze_scan"
    /\ InLoop
    /\ AnalyzeStep(ana, line_num, char_pos, lines[line_num]).raised
    /\ result' = ErrorResult(AnalyzeStep(ana, line_num, char_pos,
                                         lines[line_num]).exc)
    /\ pc' = "done"
    /\ UNCHANGED <<script, file, lines, line_num, char_pos, pos, ana,
                   basic_issues, position_issues, runVars>>

\* analyze_bracket_structure: the loops are over; unclosed brackets and
\* backticks are checked and the result returned.
AnalyzeFinish ==
    /\ pc = "analyze_scan"
    /\ ~InLoop
    /\ result' = AnalyzeReturn(ana, lines)
    /\ pc' = "done"
    /\ UNCHANGED <<script, file, lines, line_num, char_pos, pos, ana,
                   basic_issues, position_issues, runVars>>

Next ==
    \/ CountBrackets
    \/ FindOpen
    \/ FindOpenFails
    \/ FindChar
    \/ FindReturn
    \/ AnalyzeOpen
    \/ AnalyzeOpenFails
    \/ AnalyzeChar
    \/ AnalyzeRaises
    \/ AnalyzeFinish

Spec == Init /\ [][Next]_vars

\* ------------------------------- check_brackets.py, the module-level code

\* The state of the per-character variables while the module-level loop runs.
IdleScanVars ==
    /\ script = "check_brackets"
    /\ file = [content |-> <<>>, readable |-> TRUE]
    /\ pc = "idle"
    /\ lines = <<>>
    /\ line_num = 1
    /\ char_pos = 0
    /\ pos = PosInit
    /\ ana = AnaInit
    /\ basic_issues = Unset
    /\ position_issues = Unset
    /\ result = None

\* The lists of at most n files os.walk may find.
FileLists(n) == UNION {[1..k -> Files(MaxRunLen)] : k \in 0..n}

InitRun ==
    /\ IdleScanVars
    /\ target_files \in FileLists(MaxFiles)
    /\ problems_found = FALSE
    /\ detailed_issues = <<>>
    /\ reports = <<>>
    /\ run_pc = "loop"
    /\ exit_status = 0

\* One turn of `for file_path in target_files`.
RunFile ==
    /\ run_pc = "loop"
    /\ target_files # <<>>
    /\ LET f == Head(target_files)
           basic == count_brackets(f)
           positions == find_bracket_position_issues(f)
       IN /\ file' = f
          /\ basic_issues' = basic
          /\ position_issues' = positions
          /\ IF basic # <<>> \/ positions # <<>>
             THEN /\ problems_found' = TRUE
                  /\ detailed_issues' =
                        Append(detailed_issues,
                               [file_path |-> Len(reports) + 1,
                                basic |-> basic, positions |-> positions])
             ELSE UNCHANGED <<problems_found, detailed_issues>>
          /\ reports' = Append(reports, [basic |-> basic, positions |-> positions])
    /\ target_files' = Tail(target_files)
    /\ UNCHANGED <<script, pc, lines, line_num, char_pos, pos, ana, result,
                   run_pc, exit_status>>

\* The summary is printed and the script ends: nothing sets an exit status,
\* the interpreter ends with 0.
RunSummary ==
    /\ run_pc = "loop"
    /\ target_files = <<>>
    /\ run_pc' = "exited"
    /\ exit_status' = 0
    /\ UNCHANGED <<scanVars, target_files, problems_found, detailed_issues,
                   reports>>

NextRun ==
    \/ RunFile
    \/ RunSummary

SpecRun == InitRun /\ [][NextRun]_vars

\* ------------------------------------------------------------ the claims

\* The file was read and its processing has ended.
Scanned == pc = "done" /\ file.readable

Detailed == script = "detailed_bracket_check"

CheckBrackets == script = "check_brackets"

\* The diagnostics the stack scan of the file returned.
ScanIssues == IF Detailed THEN result.issues ELSE position_issues

CloseKinds == {"Unmatched closing", "Mismatched brackets"}

UnclosedKinds == {"Unclosed opening", "Unclosed"}

\* The top of the combined stack.
TopOpen == ana.bracket_stack[Len(ana.bracket_stack)]

\* C1: in analyze_bracket_structure, a closing bracket read while the stack
\* is non-empty and its top is of another family records exactly one
\* Mismatched diagnostic at the closing bracket's position, naming the open
\* bracket of the top and the closing character, pops the top, and the scan
\* goes on.
C1_MismatchedRecorded ==
    [][(/\ pc = "analyze_scan"
        /\ InLoop
        /\ CurChar \in Closers
        /\ ana.bracket_stack # <<>>
        /\ TopOpen.char # OpenerAt(CloserIndex(CurChar)))
       => (/\ pc' = "analyze_scan"
           /\ ana'.bracket_stack = Pop(ana.bracket_stack)
           /\ Len(ana'.line_issues) = Len(ana.line_issues) + 1
           /\ LET d == ana'.line_issues[Len(ana'.line_issues)]
              IN /\ d.issue = "Mismatched brackets"
                 /\ d.line = line_num
                 /\ d.pos = char_pos
                 /\ d.open = TopOpen.char
                 /\ d.char = CurChar)]_vars

\* C2: the scan of a file that was read ends with bracket diagnostics
\* computed from the text, never with an error outcome.
C2_ScanTotal ==
    Scanned =>
        /\ \A i \in DOMAIN ScanIssues : ScanIssues[i].issue # "ERROR"
        /\ Detailed => result = AnalyzeReturn(ana, lines)
        /\ CheckBrackets => position_issues = PositionReturn(pos)

\* n opening round brackets followed by n closing ones
Nested(n) == [i \in 1..(2 * n) |-> IF i <= n THEN "(" ELSE ")"]

\* C3: the scan of n "(" followed by n ")" returns no diagnostics and the
\* round count (n, n).
C3_NestedRoundClean ==
    \A n \in 0..MaxLen :
        (Scanned /\ file.content = Nested(n)) =>
            /\ ScanIssues = <<>>
            /\ Detailed =>
                /\ ~IsNone(result.total_brackets)
                /\ result.total_brackets.round = <<n, n>>
            /\ CheckBrackets => basic_issues = <<>>

\* A diagnostic of a bracket, which has a line and a column.
IsClose(d) == d.issue \in CloseKinds

IsUnclosed(d) == d.issue \in UnclosedKinds

IsBracketIssue(d) == IsClose(d) \/ IsUnclosed(d)

\* The character d1 reports stands in the text before the one d2 reports.
Before(d1, d2) ==
    d1.line < d2.line \/ (d1.line = d2.line /\ d1.pos < d2.pos)

NoLater(d1, d2) ==
    d1.line < d2.line \/ (d1.line = d2.line /\ d1.pos <= d2.pos)

\* C4 as stated: the bracket diagnostics of the returned list are in the
\* order of the text.
C4_ListInTextOrder ==
    Scanned =>
        \A i, j \in DOMAIN ScanIssues :
            (i < j /\ IsBracketIssue(ScanIssues[i]) /\ IsBracketIssue(ScanIssues[j]))
                => NoLater(ScanIssues[i], ScanIssues[j])

\* C4 as amended: the diagnostics of closing brackets are in the order of
\* the text and stand before every diagnostic of an unclosed bracket; the
\* diagnostics of unclosed brackets follow, those of one bracket family in
\* the order of the text.
C4_ClosesThenUnclosed ==
    Scanned =>
        \A i, j \in DOMAIN ScanIssues :
            (i < j /\ IsBracketIssue(ScanIssues[i]) /\ IsBracketIssue(ScanIssues[j]))
                => LET d1 == ScanIssues[i]
                       d2 == ScanIssues[j]
                   IN /\ ~(IsUnclosed(d1) /\ IsClose(d2))
                      /\ (IsClose(d1) /\ IsClose(d2)) => Before(d1, d2)
                      /\ (IsUnclosed(d1) /\ IsUnclosed(d2) /\ d1.char = d2.char)
                            => Before(d1, d2)

\* C4's case: a closing bracket's diagnostic is listed before the diagnostic
\* of an unclosed bracket that stands earlier in the text.
C4_Witness ==
    /\ Scanned
    /\ CheckBrackets
    /\ \E i, j \in DOMAIN ScanIssues :
            /\ i < j
            /\ IsClose(ScanIssues[i])
            /\ IsUnclosed(ScanIssues[j])
            /\ Before(ScanIssues[j], ScanIssues[i])

Range(f) == {f[i] : i \in DOMAIN f}

\* The positions of the opening brackets left on the stacks.
OpenPositions ==
    IF Detailed
    THEN {<<b.line, b.pos>> : b \in Range(ana.bracket_stack)}
    ELSE Range(pos.round_stack) \cup Range(pos.square_stack)
            \cup Range(pos.curly_stack)

\* C5: at the end of the scan the opening brackets still open are reported
\* as unclosed, each once, at the position it was pushed at and in the order
\* of the text across the families, and no other bracket is.
C5_UnclosedInPushOrder ==
    Scanned =>
        LET U == SelectSeq(ScanIssues, IsUnclosed)
        IN /\ \A i, j \in DOMAIN U : i < j => Before(U[i], U[j])
           /\ {<<U[i].line, U[i].pos>> : i \in DOMAIN U} = OpenPositions

\* The stack a closing bracket is matched against by find_bracket_position_issues.
FamilyStack(st, ch) ==
    CASE ch = ")" -> st.round_stack
      [] ch = "]" -> st.square_stack
      [] ch = "}" -> st.curly_stack

\* C6: a closing bracket read with the stack it is matched against empty
\* records exactly one UnmatchedClose at its position, leaves the stack
\* empty, and the scan goes on with the next character.
C6_UnmatchedCloseRecorded ==
    [][/\ (/\ pc = "find_scan"
           /\ InLoop
           /\ CurChar \in Closers
           /\ FamilyStack(pos, CurChar) = <<>>)
          => (/\ pc' = "find_scan"
              /\ FamilyStack(pos', CurChar) = <<>>
              /\ pos'.bracket_issues =
                    Append(pos.bracket_issues,
                           UnmatchedClosing(line_num, char_pos, CurChar))
              /\ <<line_num', char_pos'>> = NextCursor(lines, line_num, char_pos))
       /\ (/\ pc = "analyze_scan"
           /\ InLoop
           /\ CurChar \in Closers
           /\ ana.bracket_stack = <<>>)
          => (/\ pc' = "analyze_scan"
              /\ ana'.bracket_stack = <<>>
              /\ Len(ana'.line_issues) = Len(ana.line_issues) + 1
              /\ LET d == ana'.line_issues[Len(ana'.line_issues)]
                 IN /\ d.issue = "Unmatched closing"
                    /\ d.line = line_num
                    /\ d.pos = char_pos
                    /\ d.char = CurChar
              /\ <<line_num', char_pos'>> = NextCursor(lines, line_num, char_pos))
      ]_vars

\* A diagnostic of a failed read.
IsReadError(d) == d.issue \in {"ERROR", "ERROR reading file"}

HasReadError(issues) == \E i \in DOMAIN issues : IsReadError(issues[i])

\* C7: a file gets a read-error diagnostic exactly when its read failed, and
\* then nothing else: no bracket diagnostics and no counts.
C7_ReadErrorIffReadFailed ==
    pc = "done" =>
        /\ HasReadError(ScanIssues) <=> ~file.readable
        /\ CheckBrackets => (HasReadError(basic_issues) <=> ~file.readable)
        /\ ~file.readable =>
            /\ Len(ScanIssues) = 1
            /\ Detailed => IsNone(result.total_brackets)
            /\ CheckBrackets => Len(basic_issues) = 1

\* Some processed file produced a diagnostic.
SomeDiagnostic ==
    \E i \in DOMAIN reports :
        reports[i].basic # <<>> \/ reports[i].positions # <<>>

\* C8: the run ends with a non-zero exit status exactly when some file
\* produced a diagnostic.
C8_ExitStatusIffDiagnostic ==
    run_pc = "exited" => (exit_status # 0 <=> SomeDiagnostic)

\* C9 as stated: whenever count_brackets reports an issue for a file,
\* find_bracket_position_issues reports one too.
C9_CountSubsumed ==
    (pc = "done" /\ CheckBrackets) =>
        (basic_issues # <<>> => position_issues # <<>>)

\* C9 as amended: whenever count_brackets reports an issue other than an odd
\* number of backticks (unequal counts of a bracket family, or a failed
\* read), find_bracket_position_issues reports one too.
C9_FamilyCountSubsumed ==
    (pc = "done" /\ CheckBrackets) =>
        ((\E i \in DOMAIN basic_issues : basic_issues[i].issue # "BACKTICKS")
            => position_issues # <<>>)

\* C9's case: the counts of a family differ and the positional scan has
\* run to its end.
C9_Witness ==
    /\ Scanned
    /\ CheckBrackets
    /\ \E i \in DOMAIN basic_issues : basic_issues[i].issue = "CURLY BRACKETS"
    /\ Count(file.content, "{") < Count(file.content, "}")
    /\ position_issues # <<>>

\* Each family has as many opening as closing brackets in the file.
FamilyCountsEqual ==
    /\ Count(file.content, "(") = Count(file.content, ")")
    /\ Count(file.content, "[") = Count(file.content, "]")
    /\ Count(file.content, "{") = Count(file.content, "}")

BackticksEven == Count(file.content, Backtick) % 2 = 0

\* C10 as stated: a scan without diagnostics ends with no open bracket on
\* any stack and an even number of backticks.
C10_CleanMeansBalanced ==
    (Scanned /\ ScanIssues = <<>>) =>
        /\ OpenPositions = {}
        /\ FamilyCountsEqual
        /\ BackticksEven

\* C10 as amended: a scan without diagnostics ends with no open bracket on
\* any stack and equal counts in each family; the number of backticks is
\* even when the scan is analyze_bracket_structure, or when count_brackets
\* reported nothing for the file either (find_bracket_position_issues does
\* not read backticks).
C10_CleanMeansStacksEmpty ==
    (Scanned /\ ScanIssues = <<>>) =>
        /\ OpenPositions = {}
        /\ FamilyCountsEqual
        /\ (Detailed \/ basic_issues = <<>>) => BackticksEven

\* C10's case: find_bracket_position_issues returns nothing for a file with
\* brackets and an odd number of backticks.
C10_Witness ==
    /\ Scanned
    /\ CheckBrackets
    /\ ScanIssues = <<>>
    /\ Count(file.content, "(") > 0
    /\ ~BackticksEven

\* The index of the last line break of the content before index idx, or 0.
LastBreakBefore(content, idx) ==
    LET B == {k \in 1..(idx - 1) : content[k] = "\n"}
    IN IF B = {} THEN 0 ELSE CHOOSE k \in B : \A m \in B : m <= k

\* The 1-based line that holds the character at index idx of the content, and
\* the 0-based offset of the character within that line.
PhysicalLine(content, idx) ==
    1 + Cardinality({k \in 1..(idx - 1) : content[k] = "\n"})

PhysicalColumn(content, idx) == idx - 1 - LastBreakBefore(content, idx)

\* The diagnostic d is about the character at index idx of the content.
ReportsChar(d, content, idx) ==
    /\ d.line = PhysicalLine(content, idx)
    /\ d.pos = PhysicalColumn(content, idx)
    /\ d.char = content[idx]
    /\ IsClose(d) => d.char \in Closers
    /\ IsUnclosed(d) => d.char \in Openers

\* C11: every UnmatchedClose, Mismatched and UnclosedOpen diagnostic reports
\* the 1-based line that holds its bracket and the bracket's 0-based offset
\* within that line: the character at that place of the text is the bracket
\* the diagnostic names.
C11_PositionsArePhysical ==
    Scanned =>
        \A i \in DOMAIN ScanIssues :
            IsBracketIssue(ScanIssues[i]) =>
                \E idx \in DOMAIN file.content :
                    ReportsChar(ScanIssues[i], file.content, idx)

\* C11's case: a text of several lines with a closing bracket's diagnostic
\* and an unclosed bracket's diagnostic past the first line, one of them
\* past the first column.
C11_Witness ==
    /\ Scanned
    /\ \E i, j \in DOMAIN ScanIssues :
            /\ IsClose(ScanIssues[i])
            /\ IsUnclosed(ScanIssues[j])
            /\ ScanIssues[i].line >= 2
            /\ ScanIssues[j].line >= 2
            /\ ScanIssues[j].pos >= 1

\* The three bracket families: the opening and the closing character.
Families == {<<"(", ")">>, <<"[", "]">>, <<"{", "}">>}

\* The number of characters ch among the first k of the content.
CountPrefix(content, ch, k) ==
    Cardinality({i \in 1..k : content[i] = ch})

\* The family alone is balanced in the content: no prefix holds more of its
\* closing than of its opening brackets, and the whole holds as many.
FamilyBalanced(content, fam) ==
    /\ \A k \in 0..Len(content) :
            CountPrefix(content, fam[2], k) <= CountPrefix(content, fam[1], k)
    /\ Count(content, fam[1]) = Count(content, fam[2])

\* The stack find_bracket_position_issues keeps for a family.
StackOf(st, fam) ==
    CASE fam[1] = "(" -> st.round_stack
      [] fam[1] = "[" -> st.square_stack
      [] fam[1] = "{" -> st.curly_stack

\* C12: find_bracket_position_issues treats the families independently. It
\* returns no issues exactly when each family alone is balanced in the text
\* (so the cross-nested text ([)] yields none), and a character never
\* changes the stack of a family it does not belong to.
C12_FamiliesIndependent ==
    /\ []((Scanned /\ CheckBrackets) =>
            /\ position_issues = <<>>
                <=> \A fam \in Families : FamilyBalanced(file.content, fam)
            /\ file.content = <<"(", "[", ")", "]">> => position_issues = <<>>)
    /\ [][(pc = "find_scan" /\ InLoop) =>
            \A fam \in Families :
                (CurChar # fam[1] /\ CurChar # fam[2])
                    => StackOf(pos', fam) = StackOf(pos, fam)]_vars

\* C12's case: the cross-nested text ([)] has been scanned to its end by
\* find_bracket_position_issues, which returned no issues.
C12_Witness ==
    /\ Scanned
    /\ CheckBrackets
    /\ file.content = <<"(", "[", ")", "]">>
    /\ position_issues = <<>>

====
